---- MODULE Spec2Model ----
(***************************************************************************)
(* Model of ssh-orchestrator: the orchestration loop of main.py, the       *)
(* session methods of helpers/ssh_manager.py (SSHCommandExecutor) and the  *)
(* text transforms of helpers/text_processor.py.                           *)
(*                                                                         *)
(* Text is a sequence of one-character strings.  Two control characters    *)
(* are written as tokens: ESC is 0x1B and BS is 0x08; so are the double    *)
(* quote (DQUOTE), the backslash (BSLASH) and the backtick (BACKTICK).     *)
(***************************************************************************)
EXTENDS Integers, Sequences, FiniteSets, TLC

ESC == "ESC"
BS == "BS"
DQUOTE == "DQUOTE"
BSLASH == "BSLASH"
BACKTICK == "BACKTICK"

(***************************************************************************)
(* Python string primitives used by the source                             *)
(***************************************************************************)

\* "pat in s" for str, and re.search of a pattern that has no
\* metacharacter left after unescaping (main.py's prompt r"\:\~\$").
Contains(s, pat) ==
    \E i \in 1..(Len(s) - Len(pat) + 1) : SubSeq(s, i, i + Len(pat) - 1) = pat

StartsAt(s, i, pat) ==
    /\ i + Len(pat) - 1 <= Len(s)
    /\ SubSeq(s, i, i + Len(pat) - 1) = pat

\* s.replace(pat, ""): left to right, non-overlapping.
RECURSIVE RemoveFrom(_, _, _)
RemoveFrom(s, i, pat) ==
    IF i > Len(s) THEN <<>>
    ELSE IF StartsAt(s, i, pat) THEN RemoveFrom(s, i + Len(pat), pat)
    ELSE <<s[i]>> \o RemoveFrom(s, i + 1, pat)

Remove(s, pat) == RemoveFrom(s, 1, pat)

\* s.count(pat): non-overlapping occurrences, left to right.
RECURSIVE CountFrom(_, _, _)
CountFrom(s, i, pat) ==
    IF i > Len(s) THEN 0
    ELSE IF StartsAt(s, i, pat) THEN 1 + CountFrom(s, i + Len(pat), pat)
    ELSE CountFrom(s, i + 1, pat)

Count(s, pat) == CountFrom(s, 1, pat)

Whitespace == {" ", "\t", "\n", "\r", "\f"}

RECURSIVE lstrip(_)
lstrip(s) ==
    IF s # <<>> /\ Head(s) \in Whitespace THEN lstrip(Tail(s)) ELSE s

RECURSIVE rstrip(_)
rstrip(s) ==
    IF s # <<>> /\ s[Len(s)] \in Whitespace
    THEN rstrip(SubSeq(s, 1, Len(s) - 1)) ELSE s

strip(s) == rstrip(lstrip(s))

\* s.splitlines() for the line boundaries \n, \r and \r\n: no empty last
\* line after a final boundary.
RECURSIVE SplitFrom(_, _, _)
SplitFrom(s, i, cur) ==
    IF i > Len(s) THEN (IF cur = <<>> THEN <<>> ELSE <<cur>>)
    ELSE IF s[i] = "\r" /\ i < Len(s) /\ s[i + 1] = "\n"
         THEN <<cur>> \o SplitFrom(s, i + 2, <<>>)
    ELSE IF s[i] \in {"\n", "\r"} THEN <<cur>> \o SplitFrom(s, i + 1, <<>>)
    ELSE SplitFrom(s, i + 1, Append(cur, s[i]))

splitlines(s) == SplitFrom(s, 1, <<>>)

\* "\n".join(lines)
RECURSIVE JoinLines(_)
JoinLines(lines) ==
    IF lines = <<>> THEN <<>>
    ELSE IF Len(lines) = 1 THEN lines[1]
    ELSE lines[1] \o <<"\n">> \o JoinLines(Tail(lines))

(***************************************************************************)
(* helpers/text_processor.py                                               *)
(***************************************************************************)

\* The three byte classes of the pattern \x1B\[[0-?]*[ -/]*[@-~].
ParamBytes ==
    {"0", "1", "2", "3", "4", "5", "6", "7", "8", "9",
     ":", ";", "<", "=", ">", "?"}

IntermediateBytes ==
    {" ", "!", DQUOTE, "#", "$", "%", "&", "'", "(", ")", "*", "+", ",", "-",
     ".", "/"}

FinalBytes ==
    {"@", "A", "B", "C", "D", "E", "F", "G", "H", "I", "J", "K", "L", "M",
     "N", "O", "P", "Q", "R", "S", "T", "U", "V", "W", "X", "Y", "Z",
     "[", BSLASH, "]", "^", "_", BACKTICK,
     "a", "b", "c", "d", "e", "f", "g", "h", "i", "j", "k", "l", "m",
     "n", "o", "p", "q", "r", "s", "t", "u", "v", "w", "x", "y", "z",
     "{", "|", "}", "~"}

\* First index >= i whose character is outside class (Len(s)+1 if none).
RECURSIVE RunEnd(_, _, _)
RunEnd(s, i, class) ==
    IF i <= Len(s) /\ s[i] \in class THEN RunEnd(s, i + 1, class) ELSE i

\* Index of the final byte of the CSI sequence that starts at i, 0 if none
\* starts there.  The classes are disjoint, so the greedy match of the
\* regex never has to give a character back.
CsiEnd(s, i) ==
    IF i + 1 <= Len(s) /\ s[i] = ESC /\ s[i + 1] = "["
    THEN LET q == RunEnd(s, RunEnd(s, i + 2, ParamBytes), IntermediateBytes)
         IN  IF q <= Len(s) /\ s[q] \in FinalBytes THEN q ELSE 0
    ELSE 0

RECURSIVE StripAnsiFrom(_, _)
StripAnsiFrom(s, i) ==
    IF i > Len(s) THEN <<>>
    ELSE IF CsiEnd(s, i) > 0 THEN StripAnsiFrom(s, CsiEnd(s, i) + 1)
    ELSE <<s[i]>> \o StripAnsiFrom(s, i + 1)

strip_ansi(text) == StripAnsiFrom(text, 1)

RECURSIVE CleanTextFrom(_, _, _)
CleanTextFrom(text, i, stack) ==
    IF i > Len(text) THEN stack
    ELSE IF text[i] # BS THEN CleanTextFrom(text, i + 1, Append(stack, text[i]))
    ELSE IF stack # <<>>
         THEN CleanTextFrom(text, i + 1, SubSeq(stack, 1, Len(stack) - 1))
    ELSE CleanTextFrom(text, i + 1, stack)

\* A faulty variant of clean_text: backspaces are dropped and erase
\* nothing.
clean_textMutant(text) == SelectSeq(text, LAMBDA c : c # BS)

clean_text(text) == CleanTextFrom(text, 1, <<>>)

clean(text) == clean_text(strip_ansi(text))

\* Patterns are written with every escaped character as itself (the
\* r"\:\~\$" of main.py is ":~$"); what is left of the pattern language
\* of re is "." (any character but a newline) and the quantifiers
\* "+", "*" and "?" after a character or ".".
Quantifiers == {"+", "*", "?"}

\* pattern[i] matches the character c.
AtomMatches(pattern, i, c) ==
    (pattern[i] = "." /\ c # "\n") \/ (pattern[i] # "." /\ pattern[i] = c)

\* pattern from position i on matches a prefix of s from position j on.
RECURSIVE MatchHere(_, _, _, _)
MatchHere(pattern, i, s, j) ==
    IF i > Len(pattern) THEN TRUE
    ELSE LET one == j <= Len(s) /\ AtomMatches(pattern, i, s[j])
             q   == IF i < Len(pattern) /\ pattern[i + 1] \in Quantifiers
                    THEN pattern[i + 1] ELSE "1"
         IN  CASE q = "1" -> one /\ MatchHere(pattern, i + 1, s, j + 1)
               [] q = "+" -> one /\ (\/ MatchHere(pattern, i, s, j + 1)
                                     \/ MatchHere(pattern, i + 2, s, j + 1))
               [] q = "*" -> \/ MatchHere(pattern, i + 2, s, j)
                             \/ one /\ MatchHere(pattern, i, s, j + 1)
               [] q = "?" -> \/ MatchHere(pattern, i + 2, s, j)
                             \/ one /\ MatchHere(pattern, i + 2, s, j + 1)

\* re.compile(pattern).search(string) finds a match.
re_search(pattern, string) ==
    \E j \in 1..(Len(string) + 1) : MatchHere(pattern, 1, string, j)

\* Each exclude pattern is compiled as a regular expression and searched
\* in each line.
filter_lines(text, exclude_patterns) ==
    JoinLines(SelectSeq(splitlines(text),
        LAMBDA line : ~ \E p \in exclude_patterns : re_search(p, line)))

RECURSIVE MapLstrip(_)
MapLstrip(lines) ==
    IF lines = <<>> THEN <<>>
    ELSE <<lstrip(Head(lines))>> \o MapLstrip(Tail(lines))

dedent(text) == JoinLines(MapLstrip(splitlines(text)))

(***************************************************************************)
(* Program constants                                                       *)
(***************************************************************************)

MoreMarker == <<"-", "-", "M", "o", "r", "e", "-", "-">>
EndMarker == <<"(", "E", "N", "D", ")">>
\* The prompt of main.py, r"\:\~\$": the literal text ":~$".
PromptPat == <<":", "~", "$">>
RecvSize == 4096
DefaultRetries == 3
DefaultDelay == 3

(***************************************************************************)
(* Bounds of the model                                                     *)
(***************************************************************************)

NumDevices == 2
MaxRetries == 3
MaxDelay == 2
MaxCalls == 4

(***************************************************************************)
(* Inputs: device records, command files, what a device prints             *)
(***************************************************************************)

\* A device record of config.yaml as main.py uses it: password and key
\* are "password is set" and "key_filename is set"; file is the state of
\* commands_file on disk and script its lines as readlines() returns
\* them.  config.ssh.devices is any list of NumDevices such records; the
\* record at an index is drawn when the loop of main reaches it.
ScriptA == << <<"l", "s", "\n">>, <<" ", "\n">>, <<"i", "d">> >>

\* A commands file whose command has a character that is special in a
\* pattern.
ScriptB == << <<"a", "+", "b", "\n">> >>

DeviceRecord(p, k, f, s) ==
    [password |-> p, key |-> k, file |-> f, script |-> s]

DeviceKinds ==
    { DeviceRecord(FALSE, FALSE, "ok",         ScriptA),
      DeviceRecord(TRUE,  FALSE, "missing",    <<>>),
      DeviceRecord(TRUE,  FALSE, "unreadable", <<>>),
      DeviceRecord(TRUE,  FALSE, "ok",         ScriptA),
      DeviceRecord(FALSE, TRUE,  "ok",         ScriptB),
      DeviceRecord(TRUE,  TRUE,  "missing",    <<>>) }

\* The value of main's loop variable before the loop has bound it.
NoDevice == DeviceRecord(FALSE, FALSE, "missing", <<>>)

\* What the device prints when the shell opens: a banner, then its prompt.
Banner == <<"h">> \o PromptPat

\* What a command prints between its echo and the next prompt.  A body is
\* a sequence of pages; after a page that ends in a pager marker the
\* device waits for a keystroke.
Page(text, wait) == [text |-> text, wait |-> wait]

Bodies ==
    { << Page(<<"o", "\n">>, "none") >>,
      << Page(<<"o">> \o MoreMarker, "more"), Page(<<"p", "\n">>, "none") >>,
      << Page(PromptPat \o MoreMarker, "more"), Page(<<"p", "\n">>, "none") >>,
      << Page(<<"o">> \o EndMarker, "end"), Page(<<"\n">>, "none") >> }

\* The pages a device prints for command line c with body b: the echo of
\* the line, the body, the prompt.
Response(c, b) ==
    << Page(c \o <<"\n">>, "none") >> \o b
    \o << Page(PromptPat, "none") >>

(***************************************************************************)
(* State                                                                   *)
(***************************************************************************)

VARIABLES
    di,         \* main: index in config.ssh.devices of the current round
    device,     \* main: the record at that index
    pc,         \* the statement that runs next
    stack,      \* the statements the running calls return to
    exc,        \* the exception that is propagating ("none": none)
    last,       \* the method that returned last
    calls,      \* number of calls the session's user has made
    client,     \* self.client: "None", "new" (no transport), "active",
                \* "closed"
    channel,    \* self.channel: "None", "open", "closed"
    retries,    \* connect: its arguments and the loop variable
    delay,
    attempt,
    attempts,   \* number of client.connect() calls of the running connect
    authFails,  \* how many of them failed with an SSHException
    sleeps,     \* number of time.sleep(delay) of the running connect
    slept,      \* their total
    lastErr,    \* how the last client.connect() ended: "none", "ssh",
                \* "socket"
    devOut,     \* device: the pages it has still to print
    pager,      \* device: the keystroke its pager waits for
    inbuf,      \* channel: bytes printed by the device, not yet received
    expired,    \* time.time() - start_time has passed the timeout
    rcvd,       \* the bytes received by the running call, undecoded
    result,     \* execute_command: result
    cmd,        \* execute_command: cmd
    output,     \* execute_command: the value returned
    sent,       \* the bytes sent on the channel by the running call
    lines,      \* execute_commands_from_file: commands
    lineNo,     \* execute_commands_from_file: next line of commands
    sentCmds,   \* the commands sent during the session
    leftover,   \* per command sent: device output of earlier commands that
                \* was not yet received when it was sent
    sink,       \* the output file of the device
    closeCalls, \* number of confirm_close() runs on the session
    chanCloses, \* number of channel.close() issued
    connCloses, \* number of client.close() issued
    closeLog,   \* the close() calls issued on the session, in order
    warnings,   \* what confirm_close() has logged a failed closure of
    closeFails  \* the transport: the close() calls that do not take effect

mainVars == <<di, device>>
ctlVars == <<pc, stack, exc, last, calls>>
sessVars == <<client, channel>>
connVars == <<retries, delay, attempt, attempts, authFails, sleeps, slept,
              lastErr>>
devVars == <<devOut, pager, inbuf>>
callVars == <<expired, rcvd, result, cmd, output, sent>>
fileVars == <<lines, lineNo, sentCmds, leftover, sink>>
closeVars == <<closeCalls, chanCloses, connCloses, closeLog, warnings,
              closeFails>>

vars == <<mainVars, ctlVars, sessVars, connVars, devVars, callVars,
          fileVars, closeVars>>

\* A session as SSHCommandExecutor.__init__ leaves it.
NewSession ==
    /\ client = "None" /\ channel = "None"
    /\ retries = 0 /\ delay = 0 /\ attempt = 0 /\ attempts = 0
    /\ authFails = 0 /\ sleeps = 0 /\ slept = 0 /\ lastErr = "none"
    /\ devOut = <<>> /\ pager = "none" /\ inbuf = <<>>
    /\ expired = FALSE /\ rcvd = <<>> /\ result = <<>> /\ cmd = <<>>
    /\ output = <<>> /\ sent = <<>>
    /\ lines = <<>> /\ lineNo = 0 /\ sentCmds = <<>> /\ leftover = <<>>
    /\ sink = <<>>
    /\ closeCalls = 0 /\ chanCloses = 0 /\ connCloses = 0
    /\ closeLog = <<>> /\ warnings = {}

\* The same, as the effect of the constructor call in main.py.
CreateSession ==
    /\ client' = "None" /\ channel' = "None"
    /\ retries' = 0 /\ delay' = 0 /\ attempt' = 0 /\ attempts' = 0
    /\ authFails' = 0 /\ sleeps' = 0 /\ slept' = 0 /\ lastErr' = "none"
    /\ devOut' = <<>> /\ pager' = "none" /\ inbuf' = <<>>
    /\ expired' = FALSE /\ rcvd' = <<>> /\ result' = <<>> /\ cmd' = <<>>
    /\ output' = <<>> /\ sent' = <<>>
    /\ lines' = <<>> /\ lineNo' = 0 /\ sentCmds' = <<>> /\ leftover' = <<>>
    /\ sink' = <<>>
    /\ closeCalls' = 0 /\ chanCloses' = 0 /\ connCloses' = 0
    /\ closeLog' = <<>> /\ warnings' = {}
    /\ closeFails' = closeFails

(***************************************************************************)
(* Calls and returns                                                       *)
(***************************************************************************)

Call(target, back) ==
    /\ pc' = target
    /\ stack' = <<back>> \o stack
    /\ exc' = "none"
    /\ last' = last

\* Method m ends, normally (e = "none") or by raising e.
Return(e, m) ==
    /\ pc' = Head(stack)
    /\ stack' = Tail(stack)
    /\ exc' = e
    /\ last' = m

(***************************************************************************)
(* The device at the far end of the channel                                *)
(***************************************************************************)

\* The device prints the next byte of its pending output, unless its pager
\* waits for a keystroke.  Bytes arrive one at a time, so that a recv() can
\* return any prefix of what the device prints.
DevEmit ==
    /\ channel = "open" /\ pager = "none" /\ devOut # <<>>
    /\ LET page == Head(devOut)
       IN  IF page.text = <<>>
           THEN /\ pager' = page.wait
                /\ devOut' = Tail(devOut)
                /\ inbuf' = inbuf
           ELSE /\ inbuf' = Append(inbuf, Head(page.text))
                /\ IF Len(page.text) = 1
                   THEN pager' = page.wait /\ devOut' = Tail(devOut)
                   ELSE /\ pager' = pager
                        /\ devOut' = <<Page(Tail(page.text), page.wait)>>
                                     \o Tail(devOut)
    /\ UNCHANGED <<mainVars, ctlVars, sessVars, connVars, callVars, fileVars,
                   closeVars>>

\* time.time() - start_time passes the timeout of the polling loop that
\* is running.
TimeExpires ==
    /\ pc \in {"wp", "ec_loop"} /\ ~expired
    /\ expired' = TRUE
    /\ UNCHANGED <<mainVars, ctlVars, sessVars, connVars, devVars, rcvd,
                   result, cmd, output, sent, fileVars, closeVars>>

\* The pager after the keystroke k.
PagerAfter(pg, k) ==
    IF (pg = "more" /\ k = <<" ">>) \/ (pg = "end" /\ k = <<"q">>)
    THEN "none" ELSE pg

(***************************************************************************)
(* SSHCommandExecutor.connect                                              *)
(***************************************************************************)

\* A faulty variant of Retryable: a socket error is retried as well.
RetryableMutant(err) == TRUE

\* Lines 113 and 124: which failures of client.connect() the retry loop
\* handles ("ssh": AuthenticationException or SSHException).
Retryable(err) == err = "ssh"

\* A faulty variant of ShouldSleep: it sleeps after the last attempt too.
ShouldSleepMutant(a, r) == a <= r

\* Line 115: after failed attempt a of r, sleep and try again.
ShouldSleep(a, r) == a < r

\* Lines 73-87: a new SSHClient, then the loop over range(1, retries + 1).
ConnectBegin(r, d, back) ==
    /\ client' = "new"
    /\ channel' = channel
    /\ retries' = r /\ delay' = d /\ attempt' = 1
    /\ attempts' = 0 /\ authFails' = 0 /\ sleeps' = 0 /\ slept' = 0
    /\ lastErr' = "none"
    /\ IF r >= 1
       THEN Call("connect", back)
       ELSE pc' = back /\ stack' = stack /\ exc' = "none" /\ last' = "connect"

\* Lines 88-126: one round of the retry loop.
ConnectAttempt ==
    /\ pc = "connect"
    /\ \E outcome \in {"ok", "ssh", "socket"} :
        /\ attempts' = attempts + 1
        /\ lastErr' = IF outcome = "ok" THEN "none" ELSE outcome
        /\ IF outcome = "ok"
           THEN /\ client' = "active"
                /\ Return("none", "connect")
                /\ UNCHANGED <<attempt, authFails, sleeps, slept>>
           ELSE /\ client' = client
                /\ authFails' = authFails + (IF outcome = "ssh" THEN 1 ELSE 0)
                /\ IF Retryable(outcome)
                   THEN IF ShouldSleep(attempt, retries)
                        THEN /\ sleeps' = sleeps + 1
                             /\ slept' = slept + delay
                             /\ attempt' = attempt + 1
                             /\ UNCHANGED <<pc, stack, exc, last>>
                        ELSE /\ Return("ConnectionError", "connect")
                             /\ UNCHANGED <<attempt, sleeps, slept>>
                   ELSE /\ Return("ConnectionError", "connect")
                        /\ UNCHANGED <<attempt, sleeps, slept>>
    /\ UNCHANGED <<mainVars, calls, channel, retries, delay, devVars,
                   callVars, fileVars, closeVars>>

(***************************************************************************)
(* SSHCommandExecutor.interactive_terminal                                 *)
(***************************************************************************)

\* Lines 136-146; shellOk is whether invoke_shell() succeeds.  The value
\* is the exception raised.  Line 136 dereferences self.client.
InteractiveTerminalExc(shellOk) ==
    IF client = "None" THEN "AttributeError"
    ELSE IF client # "active" THEN "ValueError"
    ELSE IF shellOk THEN "none"
    ELSE "RuntimeError"

\* The whole call: on success the channel exists and the device starts to
\* print its banner.
InteractiveTerminal(shellOk) ==
    /\ exc' = InteractiveTerminalExc(shellOk)
    /\ last' = "interactive_terminal"
    /\ client' = client
    /\ IF InteractiveTerminalExc(shellOk) = "none"
       THEN /\ channel' = "open"
            /\ devOut' = << Page(Banner, "none") >>
            /\ pager' = "none"
            /\ inbuf' = <<>>
       ELSE UNCHANGED <<channel, devVars>>

(***************************************************************************)
(* SSHCommandExecutor.confirm_close                                        *)
(***************************************************************************)

\* A faulty variant of ChannelNeedsClose: channel.closed is not looked at.
ChannelNeedsCloseMutant(ch) == ch # "None"

\* Lines 286-290: channel.close() is issued for a channel that is set and
\* not closed.
ChannelNeedsClose(ch) == ch = "open"

\* Lines 300-305: client.close() is issued for a client whose transport is
\* active.
ClientNeedsClose(cl) == cl = "active"

\* A faulty variant of ProceedsToClient: the call gives up when the
\* channel is found still open after its close().
ProceedsToClientMutant(chanFailed) == ~chanFailed

\* Lines 292-300: after the verification of the channel's closure,
\* whatever it found, the call goes on to the client.
ProceedsToClient(chanFailed) == TRUE

\* What a close() call is issued on.
CloseOps == {"channel", "client"}

\* Lines 285-313, the whole call; it raises nothing.  channel.close() and
\* client.close() close what they are called on unless the transport is
\* one on which that call does not take effect (closeFails; none with
\* paramiko), and with a closure the device stops printing to the session.
\* A closure that is not verified is logged as a warning.
ConfirmClose ==
    LET chanIssued == ChannelNeedsClose(channel)
        chanAfter  == IF chanIssued /\ "channel" \notin closeFails
                      THEN "closed" ELSE channel
        chanFailed == chanIssued /\ chanAfter # "closed"
        connIssued == ProceedsToClient(chanFailed) /\ ClientNeedsClose(client)
        connAfter  == IF connIssued /\ "client" \notin closeFails
                      THEN "closed" ELSE client
        connFailed == connIssued /\ connAfter # "closed"
    IN  /\ closeCalls' = closeCalls + 1
        /\ chanCloses' = chanCloses + (IF chanIssued THEN 1 ELSE 0)
        /\ connCloses' = connCloses + (IF connIssued THEN 1 ELSE 0)
        /\ closeLog' = closeLog
                \o (IF chanIssued THEN <<"channel">> ELSE <<>>)
                \o (IF connIssued THEN <<"client">> ELSE <<>>)
        /\ warnings' = warnings
                \cup (IF chanFailed THEN {"channel"} ELSE {})
                \cup (IF connFailed THEN {"client"} ELSE {})
        /\ closeFails' = closeFails
        /\ channel' = chanAfter
        /\ client' = connAfter
        /\ IF chanAfter # channel \/ connAfter # client
           THEN devOut' = <<>> /\ pager' = "none" /\ inbuf' = <<>>
           ELSE UNCHANGED devVars

(***************************************************************************)
(* SSHCommandExecutor.wait_for_prompt                                      *)
(***************************************************************************)

Min(a, b) == IF a < b THEN a ELSE b

\* channel.recv(n): up to n of the bytes that have arrived.
Recv(buf, n) == SubSeq(buf, 1, Min(n, Len(buf)))
AfterRecv(buf, n) == SubSeq(buf, Min(n, Len(buf)) + 1, Len(buf))

\* Lines 164-174: the two checks (the channel is set; its transport is
\* active, which it is as long as the channel is open), then start_time.
WaitBegin(back) ==
    /\ rcvd' = <<>> /\ expired' = FALSE
    /\ IF channel = "None"
       THEN pc' = back /\ stack' = stack /\ exc' = "ValueError"
            /\ last' = "wait_for_prompt"
       ELSE IF channel # "open"
       THEN pc' = back /\ stack' = stack /\ exc' = "ValueError"
            /\ last' = "wait_for_prompt"
       ELSE Call("wp", back)

\* Line 180: the text the prompt is searched in after a chunk has come
\* (acc is what the call had received before).
WaitHaystack(acc, chunk) == chunk

\* A faulty variant of TimedOut: the clock is never looked at.
TimedOutMutant(e) == FALSE

\* Lines 177 and 239: the test of time.time() - start_time against
\* timeout, e being whether the timeout has passed.
TimedOut(e) == e

\* Lines 177-191: one round of the polling loop.
WaitIter ==
    /\ pc = "wp"
    /\ IF TimedOut(expired)
       THEN /\ Return("TimeoutError", "wait_for_prompt")
            /\ UNCHANGED <<inbuf, rcvd>>
       ELSE IF inbuf # <<>>
       THEN LET chunk == Recv(inbuf, RecvSize)
            IN  /\ inbuf' = AfterRecv(inbuf, RecvSize)
                /\ rcvd' = rcvd \o chunk
                /\ IF Contains(WaitHaystack(rcvd, chunk), PromptPat)
                   THEN Return("none", "wait_for_prompt")
                   ELSE UNCHANGED <<pc, stack, exc, last>>
       ELSE UNCHANGED <<pc, stack, exc, last, inbuf, rcvd>>
    /\ UNCHANGED <<mainVars, calls, sessVars, connVars, devOut, pager,
                   expired, result, cmd, output, sent, fileVars, closeVars>>

(***************************************************************************)
(* SSHCommandExecutor.execute_command                                      *)
(***************************************************************************)

\* Lines 218-224: the check, the send of the line, start_time.  The device
\* answers the line with one of Bodies; the bytes of the line are
\* keystrokes to a pager that waits.
ExecSend ==
    /\ pc = "ec_send"
    /\ rcvd' = <<>> /\ result' = <<>> /\ output' = <<>> /\ expired' = FALSE
    /\ cmd' = cmd
    /\ IF channel = "None"
       THEN /\ Return("ValueError", "execute_command")
            /\ UNCHANGED <<sent, devVars, sentCmds, leftover>>
       ELSE IF channel = "closed"
       THEN /\ Return("OSError", "execute_command")
            /\ UNCHANGED <<sent, devVars, sentCmds, leftover>>
       ELSE /\ sent' = << cmd \o <<"\n">> >>
            /\ sentCmds' = Append(sentCmds, cmd)
            /\ leftover' = Append(leftover, inbuf # <<>> \/ devOut # <<>>)
            /\ \E b \in Bodies : devOut' = devOut \o Response(cmd, b)
            /\ pager' = "none"
            /\ inbuf' = inbuf
            /\ pc' = "ec_loop"
            /\ UNCHANGED <<stack, exc, last>>
    /\ UNCHANGED <<mainVars, calls, sessVars, connVars, lines, lineNo, sink,
                   closeVars>>

\* Lines 230-235 on one chunk: the keystrokes sent, and the chunk after
\* the markers are removed.
ChunkKeys(chunk) ==
    (IF Contains(chunk, MoreMarker) THEN << <<" ">> >> ELSE <<>>)
    \o (IF Contains(Remove(chunk, MoreMarker), EndMarker)
        THEN << <<"q">> >> ELSE <<>>)

\* A faulty variant of ChunkText: the markers stay in the chunk.
ChunkTextMutant(chunk) == chunk

ChunkText(chunk) == Remove(Remove(chunk, MoreMarker), EndMarker)

RECURSIVE PagerAfterKeys(_, _)
PagerAfterKeys(pg, keys) ==
    IF keys = <<>> THEN pg
    ELSE PagerAfterKeys(PagerAfter(pg, Head(keys)), Tail(keys))

\* Lines 243-245.
CleanedOutput(res, c) == dedent(filter_lines(res, {c, PromptPat}))

\* A faulty variant of AppendBlock: the file is opened for writing, not
\* for appending.
AppendBlockMutant(file, out) == out \o <<"\n">>

\* Lines 274-275: the file after open(file_path, "a") and
\* write(output + "\n").
AppendBlock(file, out) == file \o out \o <<"\n">>

\* Lines 226-251: one round of the receive loop; the round that sees the
\* prompt ends the call (filtering, writing to the file, the return).
\* wrote is whether log_output_to_file() manages to write.
ExecIter ==
    /\ pc = "ec_loop"
    /\ LET ready == inbuf # <<>>
           chunk == IF ready THEN Recv(inbuf, RecvSize) ELSE <<>>
           keys  == ChunkKeys(chunk)
           res   == result \o clean(ChunkText(chunk))
       IN  /\ inbuf' = IF ready THEN AfterRecv(inbuf, RecvSize) ELSE inbuf
           /\ rcvd' = rcvd \o chunk
           /\ sent' = sent \o keys
           /\ pager' = PagerAfterKeys(pager, keys)
           /\ result' = res
           /\ IF Contains(res, PromptPat)
              THEN \E wrote \in BOOLEAN :
                    /\ output' = CleanedOutput(res, cmd)
                    /\ IF wrote
                       THEN /\ sink' = AppendBlock(sink,
                                                   CleanedOutput(res, cmd))
                            /\ Return("none", "execute_command")
                       ELSE /\ sink' = sink
                            /\ Return("OSError", "execute_command")
              ELSE IF TimedOut(expired)
              THEN /\ Return("TimeoutError", "execute_command")
                   /\ UNCHANGED <<output, sink>>
              ELSE UNCHANGED <<pc, stack, exc, last, output, sink>>
    /\ UNCHANGED <<mainVars, calls, sessVars, connVars, devOut, expired, cmd,
                   lines, lineNo, sentCmds, leftover, closeVars>>

(***************************************************************************)
(* SSHCommandExecutor.execute_commands_from_file                           *)
(***************************************************************************)

\* Line 346: a stripped line is a command if it is not empty.
IsCommand(c) == c # <<>>

\* A faulty variant of GoesOn: the loop goes on after a failed command.
GoesOnMutant(e) == TRUE

\* Lines 344-352: whether the loop goes on after execute_command returned
\* with the propagating exception e.
GoesOn(e) == e = "none"

\* Lines 331-342 for the commands file of device dev: the two checks, then
\* open() and readlines() inside the try.
EcffBegin(dev, back) ==
    IF dev.file = "missing"
    THEN /\ pc' = back /\ stack' = stack /\ exc' = "FileNotFoundError"
         /\ last' = "execute_commands_from_file"
         /\ UNCHANGED <<sessVars, devVars, closeVars, lines, lineNo>>
    ELSE IF dev.file = "unreadable"
    THEN /\ pc' = back /\ stack' = stack /\ exc' = "OSError"
         /\ last' = "execute_commands_from_file"
         /\ ConfirmClose
         /\ UNCHANGED <<lines, lineNo>>
    ELSE /\ Call("ecff", back)
         /\ lines' = dev.script
         /\ lineNo' = 1
         /\ UNCHANGED <<sessVars, devVars, closeVars>>

\* Lines 344-352: one round of the loop over commands, entered at the
\* start and again when execute_command has returned; when the loop ends
\* or a command has raised, the finally clause runs confirm_close().
EcffLine ==
    /\ pc = "ecff"
    /\ IF ~GoesOn(exc)
       THEN /\ ConfirmClose
            /\ Return(exc, "execute_commands_from_file")
            /\ UNCHANGED <<lineNo, cmd>>
       ELSE IF lineNo > Len(lines)
       THEN /\ ConfirmClose
            /\ Return("none", "execute_commands_from_file")
            /\ UNCHANGED <<lineNo, cmd>>
       ELSE /\ lineNo' = lineNo + 1
            /\ UNCHANGED <<sessVars, devVars, closeVars>>
            /\ IF IsCommand(strip(lines[lineNo]))
               THEN /\ cmd' = strip(lines[lineNo])
                    /\ Call("ec_send", "ecff")
               ELSE UNCHANGED <<cmd, pc, stack, exc, last>>
    /\ UNCHANGED <<mainVars, calls, connVars, expired, rcvd, result, output,
                   sent, lines, sentCmds, leftover, sink>>

(***************************************************************************)
(* main.py                                                                 *)
(***************************************************************************)

\* Lines 57-60: the check at the end of SSHCommandExecutor.__init__.
ConstructExc(dev) ==
    IF ~dev.password /\ ~dev.key THEN "ValueError" ELSE "none"

\* Lines 6-19: the next round of the loop, up to the construction of the
\* executor, which is outside the try.
MainConstruct ==
    /\ pc = "m6"
    /\ IF di > NumDevices
       THEN /\ pc' = "m_end"
            /\ UNCHANGED <<device, exc, sessVars, connVars, devVars,
                           callVars, fileVars, closeVars>>
       ELSE \E dev \in DeviceKinds :
            /\ device' = dev
            /\ IF ConstructExc(dev) # "none"
               THEN /\ pc' = "m_raised"
                    /\ exc' = ConstructExc(dev)
                    /\ UNCHANGED <<sessVars, connVars, devVars, callVars,
                                   fileVars, closeVars>>
               ELSE /\ pc' = "m22"
                    /\ exc' = "none"
                    /\ CreateSession
    /\ last' = "none"
    /\ UNCHANGED <<di, stack, calls>>

\* Line 22.
MainConnect ==
    /\ pc = "m22"
    /\ ConnectBegin(DefaultRetries, DefaultDelay, "m24")
    /\ UNCHANGED <<mainVars, calls, devVars, callVars, fileVars, closeVars>>

\* Line 24.
MainShell ==
    /\ pc = "m24" /\ exc = "none"
    /\ \E shellOk \in BOOLEAN : InteractiveTerminal(shellOk)
    /\ pc' = "m26"
    /\ UNCHANGED <<mainVars, stack, calls, connVars, callVars, fileVars,
                   closeVars>>

\* Line 26.
MainWait ==
    /\ pc = "m26" /\ exc = "none"
    /\ WaitBegin("m28")
    /\ UNCHANGED <<mainVars, calls, sessVars, connVars, devVars, result, cmd,
                   output, sent, fileVars, closeVars>>

\* Line 28.
MainScript ==
    /\ pc = "m28" /\ exc = "none"
    /\ EcffBegin(device, "m29")
    /\ UNCHANGED <<mainVars, calls, connVars, callVars, sentCmds, leftover,
                   sink>>

\* Lines 29-30: the except clause of the round; then the next device.
MainExcept ==
    /\ pc \in {"m24", "m26", "m28", "m29"} /\ exc # "none"
    /\ exc' = "none"
    /\ pc' = "m6"
    /\ di' = di + 1
    /\ UNCHANGED <<device, stack, last, calls, sessVars, connVars, devVars,
                   callVars, fileVars, closeVars>>

\* The round ends without an exception; then the next device.
MainNext ==
    /\ pc = "m29" /\ exc = "none"
    /\ pc' = "m6"
    /\ di' = di + 1
    /\ UNCHANGED <<device, stack, exc, last, calls, sessVars, connVars,
                   devVars, callVars, fileVars, closeVars>>

Init ==
    /\ di = 1
    /\ device = NoDevice
    /\ pc = "m6" /\ stack = <<>> /\ exc = "none" /\ last = "none"
    /\ calls = 0
    /\ NewSession
    /\ closeFails = {}

Next ==
    \/ MainConstruct
    \/ MainConnect
    \/ ConnectAttempt
    \/ MainShell
    \/ MainWait
    \/ WaitIter
    \/ MainScript
    \/ EcffLine
    \/ ExecSend
    \/ ExecIter
    \/ MainExcept
    \/ MainNext
    \/ DevEmit
    \/ TimeExpires

Spec == Init /\ [][Next]_vars

\* The same program when time advances and the interpreter keeps running
\* the loop it is in: the clock passes any timeout, and a round of a
\* polling loop that can be run is run.  Nothing is assumed of the device.
\* A round of execute_command's loop that finds nothing to receive.
ExecOnIdle == inbuf = <<>> /\ ExecIter

\* A round of execute_command's loop would receive a chunk.
ExecCanRecv == pc = "ec_loop" /\ inbuf # <<>>

\* Weak fairness of ExecIter is given in two parts: of the rounds that find
\* nothing to receive, and of the rounds that receive, for which the
\* enabling condition ExecCanRecv is written out (such a round takes the
\* chunk out of inbuf, so it changes the state).
SpecLive ==
    /\ Init /\ [][Next]_vars
    /\ WF_vars(TimeExpires)
    /\ WF_vars(WaitIter)
    /\ WF_vars(ExecOnIdle)
    /\ ([]<>~ExecCanRecv \/ []<><<ExecIter>>_vars)

(***************************************************************************)
(* One session driven by any sequence of calls of its user                 *)
(***************************************************************************)

\* The values of connect's parameter retries (an int): negative, zero,
\* and the positive ones up to the bound.
RetriesInputs == (0 - 1)..MaxRetries

ApiConnect ==
    /\ pc = "api" /\ calls < MaxCalls /\ client # "active"
    /\ calls' = calls + 1
    /\ \E r \in RetriesInputs, d \in 1..MaxDelay : ConnectBegin(r, d, "api")
    /\ UNCHANGED <<mainVars, devVars, callVars, fileVars, closeVars>>

ApiShell ==
    /\ pc = "api" /\ calls < MaxCalls
    /\ calls' = calls + 1
    /\ \E shellOk \in BOOLEAN : InteractiveTerminal(shellOk)
    /\ UNCHANGED <<mainVars, pc, stack, connVars, callVars, fileVars,
                   closeVars>>

ApiClose ==
    /\ pc = "api" /\ calls < MaxCalls
    /\ calls' = calls + 1
    /\ ConfirmClose
    /\ exc' = "none"
    /\ last' = "confirm_close"
    /\ UNCHANGED <<mainVars, pc, stack, connVars, callVars, fileVars>>

\* A session just constructed, no call made yet.
ApiStart ==
    /\ di = 0
    /\ device = NoDevice
    /\ pc = "api" /\ stack = <<>> /\ exc = "none" /\ last = "none"
    /\ calls = 0
    /\ NewSession

InitApi == ApiStart /\ closeFails = {}

NextApi ==
    \/ ApiConnect
    \/ ConnectAttempt
    \/ ApiShell
    \/ ApiClose
    \/ DevEmit

SpecApi == InitApi /\ [][NextApi]_vars

\* The same session on any transport, one whose close() calls may not
\* take effect included.
InitStub == ApiStart /\ closeFails \in SUBSET CloseOps

SpecStub == InitStub /\ [][NextApi]_vars

\* The commands the user of the session passes to execute_command.
ApiCommands == { <<"l", "s">> }

ApiWait ==
    /\ pc = "api" /\ calls < MaxCalls
    /\ calls' = calls + 1
    /\ WaitBegin("api")
    /\ UNCHANGED <<mainVars, sessVars, connVars, devVars, result, cmd,
                   output, sent, fileVars, closeVars>>

ApiExec ==
    /\ pc = "api" /\ calls < MaxCalls
    /\ calls' = calls + 1
    /\ \E c \in ApiCommands : cmd' = c
    /\ Call("ec_send", "api")
    /\ UNCHANGED <<mainVars, sessVars, connVars, devVars, expired, rcvd,
                   result, output, sent, fileVars, closeVars>>

\* connect() with the default values of its parameters.
ApiConnectDefault ==
    /\ pc = "api" /\ calls < MaxCalls /\ client # "active"
    /\ calls' = calls + 1
    /\ ConnectBegin(DefaultRetries, DefaultDelay, "api")
    /\ UNCHANGED <<mainVars, devVars, callVars, fileVars, closeVars>>

\* The session driven by any sequence of calls, wait_for_prompt and
\* execute_command among them.
NextCalls ==
    \/ ApiConnectDefault
    \/ ConnectAttempt
    \/ ApiShell
    \/ ApiClose
    \/ ApiWait
    \/ WaitIter
    \/ ApiExec
    \/ ExecSend
    \/ ExecIter
    \/ DevEmit
    \/ TimeExpires

SpecCalls == InitApi /\ [][NextCalls]_vars

(***************************************************************************)
(* The functions of text_processor.py, each called once on any text        *)
(***************************************************************************)

\* Longest text given to strip_ansi and to clean_text.
MaxAnsiLen == 6
MaxTextLen == 5

\* The texts of at most n characters of alphabet.
TextsUpTo(alphabet, n) == UNION { [1..k -> alphabet] : k \in 0..n }

\* ESC, "[", a parameter byte, an intermediate byte (both ordinary
\* characters outside a sequence) and a final byte.
AnsiAlphabet == {ESC, "[", "0", " ", "m"}

\* Ordinary characters and the backspace.
TextAlphabet == {"a", "b", BS}

\* A call fn(text) about to be made: the argument is in rcvd, the value
\* will be in result.
TextInit(fn, texts) ==
    /\ di = 0 /\ device = NoDevice
    /\ pc = fn /\ stack = <<>> /\ exc = "none" /\ last = "none"
    /\ calls = 0
    /\ client = "None" /\ channel = "None"
    /\ retries = 0 /\ delay = 0 /\ attempt = 0 /\ attempts = 0
    /\ authFails = 0 /\ sleeps = 0 /\ slept = 0 /\ lastErr = "none"
    /\ devOut = <<>> /\ pager = "none" /\ inbuf = <<>>
    /\ expired = FALSE /\ rcvd \in texts /\ result = <<>> /\ cmd = <<>>
    /\ output = <<>> /\ sent = <<>>
    /\ lines = <<>> /\ lineNo = 0 /\ sentCmds = <<>> /\ leftover = <<>>
    /\ sink = <<>>
    /\ closeCalls = 0 /\ chanCloses = 0 /\ connCloses = 0
    /\ closeLog = <<>> /\ warnings = {} /\ closeFails = {}

TextReturn(fn, value) ==
    /\ pc = fn
    /\ result' = value
    /\ pc' = "returned" /\ last' = fn
    /\ UNCHANGED <<mainVars, stack, exc, calls, sessVars, connVars, devVars,
                   expired, rcvd, cmd, output, sent, fileVars, closeVars>>

StripAnsiCall == TextReturn("strip_ansi", strip_ansi(rcvd))

InitStrip == TextInit("strip_ansi", TextsUpTo(AnsiAlphabet, MaxAnsiLen))

NextStrip == StripAnsiCall

SpecStrip == InitStrip /\ [][NextStrip]_vars

CleanTextCall == TextReturn("clean_text", clean_text(rcvd))

InitClean == TextInit("clean_text", TextsUpTo(TextAlphabet, MaxTextLen))

NextClean == CleanTextCall

SpecClean == InitClean /\ [][NextClean]_vars

(***************************************************************************)
(* execute_command receiving any stream in any chunks                      *)
(***************************************************************************)

\* Most pieces in a stream.
MaxPieces == 2

\* What a stream is made of: a line of output, a character and the
\* backspace that erases it, an escape sequence, the pager markers.
StreamPieces ==
    { <<"o", "\n">>, <<"a", BS>>, <<ESC, "[", "m">>, MoreMarker, EndMarker }

RECURSIVE Concat(_)
Concat(pieces) ==
    IF pieces = <<>> THEN <<>> ELSE Head(pieces) \o Concat(Tail(pieces))

\* The streams of at most MaxPieces pieces.
Streams == { Concat(ps) : ps \in TextsUpTo(StreamPieces, MaxPieces) }

\* execute_command("ls", ...) has sent its command (line 222) on a session
\* whose shell is open, after connect() succeeded at its first attempt;
\* the device is about to print the echo, a stream and its prompt, without
\* waiting for keystrokes.
InitChunks ==
    /\ di = 0 /\ device = NoDevice
    /\ pc = "ec_loop" /\ stack = <<"api">> /\ exc = "none"
    /\ last = "interactive_terminal" /\ calls = 0
    /\ client = "active" /\ channel = "open"
    /\ retries = DefaultRetries /\ delay = DefaultDelay
    /\ attempt = 1 /\ attempts = 1
    /\ authFails = 0 /\ sleeps = 0 /\ slept = 0 /\ lastErr = "none"
    /\ \E stream \in Streams :
          devOut = Response(<<"l", "s">>, << Page(stream, "none") >>)
    /\ pager = "none" /\ inbuf = <<>>
    /\ expired = FALSE /\ rcvd = <<>> /\ result = <<>>
    /\ cmd = <<"l", "s">> /\ output = <<>>
    /\ sent = << <<"l", "s", "\n">> >>
    /\ lines = <<>> /\ lineNo = 0
    /\ sentCmds = << <<"l", "s">> >> /\ leftover = <<FALSE>>
    /\ sink = <<>>
    /\ closeCalls = 0 /\ chanCloses = 0 /\ connCloses = 0
    /\ closeLog = <<>> /\ warnings = {} /\ closeFails = {}

NextChunks ==
    \/ DevEmit
    \/ ExecIter
    \/ TimeExpires

SpecChunks == InitChunks /\ [][NextChunks]_vars

(***************************************************************************)
(* Properties                                                              *)
(***************************************************************************)

\* The round of main for one device has ended (the session of that device
\* is still the one in the state).
RunEnded == pc \in {"m6", "m_end"} /\ di > 1

\* C1: when the run of a device has ended, with or without an error,
\* teardown has been done: nothing that was opened on the session of that
\* device is still open.
C1_TeardownOnEveryPath ==
    RunEnded => (client # "active" /\ channel # "open")

\* C2: connect(retries = n, delay = d), n >= 1, on which no attempt failed
\* with a socket error.  While it runs, every attempt so far failed and
\* was followed by one sleep of d; it returns normally after j failures
\* with j + 1 attempts and j sleeps; it raises ConnectionError after n
\* failures with n attempts and n - 1 sleeps.
C2_RetryCounts ==
    /\ pc = "connect" =>
        /\ attempts = authFails /\ attempt = attempts + 1
        /\ authFails < retries
        /\ sleeps = authFails /\ slept = sleeps * delay
    /\ (pc = "api" /\ last = "connect" /\ lastErr # "socket"
            /\ retries >= 1) =>
        IF exc = "none"
        THEN /\ authFails < retries
             /\ attempts = authFails + 1
             /\ sleeps = authFails /\ slept = sleeps * delay
        ELSE /\ exc = "ConnectionError"
             /\ authFails = retries /\ attempts = retries
             /\ sleeps = retries - 1 /\ slept = sleeps * delay

\* C2: two attempts failed with an authentication error, the third
\* succeeded.
C2_Witness ==
    /\ pc = "api" /\ last = "connect" /\ exc = "none"
    /\ retries = 3 /\ authFails = 2 /\ attempts = 3 /\ sleeps = 2

\* C3: once an attempt has failed with a socket error, connect is over:
\* it has raised ConnectionError, the failed attempt was the last one and
\* no sleep followed it.
C3_SocketErrorIsFatal ==
    lastErr = "socket" =>
        /\ pc # "connect"
        /\ attempts = authFails + 1
        /\ sleeps = authFails /\ slept = sleeps * delay
        /\ last = "connect" => exc = "ConnectionError"

\* C3: a socket error on the second of three attempts.
C3_Witness ==
    /\ lastErr = "socket" /\ pc = "api" /\ last = "connect"
    /\ retries = 3 /\ attempts = 2 /\ authFails = 1

\* C4: no command but the first of a session is sent while output of an
\* earlier command is still to be received.
C4_NoPipelining ==
    \A i \in 2..Len(leftover) : ~leftover[i]

\* Number of advance keystrokes among the sends of the running call.
SpacesSent == Len(SelectSeq(sent, LAMBDA k : k = <<" ">>))

\* C5: the number of advance keystrokes sent equals the number of
\* "--More--" markers in what the command has received, and the marker is
\* not in the output returned.
C5_OneKeystrokePerMarker ==
    /\ SpacesSent = Count(rcvd, MoreMarker)
    /\ ~Contains(output, MoreMarker)

\* C6: wait_for_prompt goes on polling only while what it has received so
\* far does not match the prompt, and it raises TimeoutError only if what
\* it has received does not match.
C6_WaitMatchesAccumulated ==
    /\ pc = "wp" => ~Contains(rcvd, PromptPat)
    /\ (last = "wait_for_prompt" /\ exc = "TimeoutError")
            => ~Contains(rcvd, PromptPat)

\* confirm_close() has returned: it raised nothing and nothing is open.
C7_Closed ==
    (pc = "api" /\ last = "confirm_close") =>
        /\ exc = "none"
        /\ channel # "open" /\ client # "active"

\* A step that is a confirm_close() on a session that was never connected,
\* or that follows a confirm_close() directly, issues no Close and leaves
\* the session as it is.
C7_Step ==
    (pc = "api" /\ closeCalls' = closeCalls + 1
        /\ (last = "confirm_close" \/ (client = "None" /\ channel = "None")))
    => /\ chanCloses' = chanCloses /\ connCloses' = connCloses
       /\ client' = client /\ channel' = channel
       /\ devOut' = devOut /\ inbuf' = inbuf /\ pager' = pager

\* C7: confirm_close() returns without raising from every state of the
\* session and leaves nothing open; on a never-connected session and as a
\* second call in a row it issues no Close and changes nothing.
C7_CloseIsSafeAndIdempotent == []C7_Closed /\ [][C7_Step]_vars

\* C7: confirm_close() was called twice in a row on a session with a
\* shell: the first call closed the channel and the connection.
C7_Witness ==
    /\ pc = "api" /\ last = "confirm_close"
    /\ closeCalls = 2 /\ chanCloses = 1 /\ connCloses = 1

\* C8: main ends only after every device of the list has had its round.
C8_EveryDeviceProcessed ==
    pc \in {"m_end", "m_raised"} => di > NumDevices

\* The commands of the lines ls, as the loop of lines 344-347 takes them.
RECURSIVE Commands(_)
Commands(ls) ==
    IF ls = <<>> THEN <<>>
    ELSE (IF strip(Head(ls)) # <<>> THEN << strip(Head(ls)) >> ELSE <<>>)
         \o Commands(Tail(ls))

\* Inside execute_commands_from_file the commands sent so far, with the
\* one about to be sent, are the non-blank lines among those read so far,
\* in file order; when it has returned, confirm_close() has run and
\* nothing is open, and if it returned normally every command was sent.
C9_Sent ==
    /\ pc \in {"ecff", "ec_send", "ec_loop"} =>
        sentCmds \o (IF pc = "ec_send" THEN <<cmd>> ELSE <<>>)
            = Commands(SubSeq(lines, 1, lineNo - 1))
    /\ (pc = "m29" /\ device.file = "ok") =>
        /\ closeCalls = 1 /\ channel = "closed" /\ client = "closed"
        /\ sentCmds = Commands(SubSeq(lines, 1, lineNo - 1))
        /\ exc = "none" => sentCmds = Commands(lines)

\* When execute_command has raised, the next step of the program (the
\* device may print in between) is that execute_commands_from_file sends
\* nothing, runs confirm_close() and raises the same exception to its
\* caller.
C9_Step ==
    (pc = "ecff" /\ exc # "none") =>
        \/ UNCHANGED <<ctlVars, sessVars, callVars, fileVars, closeVars>>
        \/ /\ pc' = "m29" /\ exc' = exc
           /\ sentCmds' = sentCmds /\ sent' = sent
           /\ closeCalls' = closeCalls + 1

\* C9: execute_command is called once for each non-blank stripped line, in
\* file order; after a command that fails no later command is sent, the
\* error reaches the caller, and confirm_close() has run when the call
\* ends, with or without an error.
C9_ScriptRun == []C9_Sent /\ [][C9_Step]_vars

\* C9: the second command of a script of two failed on its timeout, after
\* the first had succeeded, and the call has ended.
C9_Witness ==
    /\ pc = "m29" /\ last = "execute_commands_from_file"
    /\ exc = "TimeoutError"
    /\ sentCmds = << <<"l", "s">>, <<"i", "d">> >>
    /\ closeCalls = 1

\* C10: for a device whose commands file is missing or unreadable no
\* connection attempt is made, no channel is created, nothing is received
\* and nothing is sent.
C10_FailFastBeforeConnecting ==
    device.file # "ok" =>
        /\ attempts = 0 /\ client = "None" /\ channel = "None"
        /\ rcvd = <<>> /\ sentCmds = <<>>

\* C11: interactive_terminal() called on a session whose transport is not
\* active (never connected, every connection attempt failed, or closed)
\* has raised ValueError and there is no open channel; it has returned
\* normally only on a connected session, which then has its channel; the
\* only other failure is RuntimeError, on a connected session whose
\* channel could not be allocated.
C11_ShellNeedsConnection ==
    (pc = "api" /\ last = "interactive_terminal") =>
        /\ client # "active" => (exc = "ValueError" /\ channel # "open")
        /\ exc = "none" => (client = "active" /\ channel = "open")
        /\ client = "active" => exc \in {"none", "RuntimeError"}

\* C20: when connect(retries, delay) has returned normally, whatever the
\* value of retries, the session is connected and an attempt succeeded.
C20_NormalReturnMeansConnected ==
    (pc = "api" /\ last = "connect" /\ exc = "none") =>
        (client = "active" /\ attempts >= 1 /\ lastErr = "none")

\* The lines of the normalized accumulation res that neither contain the
\* text c nor the prompt, in their order, each without its leading blanks.
LinesToKeep(res, c) ==
    MapLstrip(SelectSeq(splitlines(res),
        LAMBDA line : ~Contains(line, c) /\ ~Contains(line, PromptPat)))

\* C12: the text execute_command returns has no line that contains the
\* command as literal text and no line that matches the prompt, and its
\* lines are the other lines of the normalized accumulation, in order.
C12_EchoAndPromptFiltered ==
    (pc = "ecff" /\ last = "execute_command" /\ exc = "none") =>
        /\ \A n \in 1..Len(splitlines(output)) :
              /\ ~Contains(splitlines(output)[n], cmd)
              /\ ~Contains(splitlines(output)[n], PromptPat)
        /\ splitlines(output) = splitlines(JoinLines(LinesToKeep(result, cmd)))

\* C13: the output file of a device changes only when a command completes,
\* and then by one block appended to what it held: the cleaned output of
\* that command and a newline.  A command that fails leaves it as it was.
C13_Step ==
    \/ pc = "m6"
    \/ /\ sink' = sink
       /\ ~(pc = "ec_loop" /\ pc' = "ecff" /\ exc' = "none")
    \/ /\ pc = "ec_loop" /\ pc' = "ecff"
       /\ exc' = "none" /\ last' = "execute_command"
       /\ sink' = sink \o output' \o <<"\n">>
       /\ output' = CleanedOutput(result', cmd)

C13_SinkAppendedInOrder == [][C13_Step]_vars

\* C13: two commands have completed and the file holds their two blocks,
\* the second after the first.
C13_Witness ==
    /\ pc = "ecff" /\ last = "execute_command" /\ exc = "none"
    /\ Len(sentCmds) = 2
    /\ sink = <<"o", "\n", "o", "p", "\n">>

\* C14: a session that has been constructed has exactly one of password
\* and key_filename set, and construction has failed only for a record
\* with neither.
C14_ExactlyOneCredential ==
    /\ pc = "m22" => (device.password # device.key)
    /\ pc = "m_raised" => (~device.password /\ ~device.key)

\* C16: stripping the escape sequences of a text that strip_ansi has
\* returned changes nothing.
C16_StripAnsiIdempotent ==
    (pc = "returned" /\ last = "strip_ansi") => strip_ansi(result) = result

\* The backspaces of text from position i on that have a character to
\* erase, when depth characters are retained before position i.
RECURSIVE PairsFrom(_, _, _)
PairsFrom(text, i, depth) ==
    IF i > Len(text) THEN 0
    ELSE IF text[i] # BS THEN PairsFrom(text, i + 1, depth + 1)
    ELSE IF depth > 0 THEN 1 + PairsFrom(text, i + 1, depth - 1)
    ELSE PairsFrom(text, i + 1, 0)

\* The annihilated pairs of text, and its backspaces that find nothing to
\* erase.
Pairs(text) == PairsFrom(text, 1, 0)
Dropped(text) == Count(text, <<BS>>) - Pairs(text)

\* C17, as stated: the length of clean_text(x) is the length of x less two
\* for every annihilated pair.
C17_LengthLaw ==
    (pc = "returned" /\ last = "clean_text") =>
        Len(result) = Len(rcvd) - 2 * Pairs(rcvd)

\* C17, amended: the length of clean_text(x) is the length of x less two
\* for every annihilated pair and less one for every backspace that has
\* nothing to erase; no backspace is left in the value.
C17_LengthLawWithDropped ==
    (pc = "returned" /\ last = "clean_text") =>
        /\ Len(result) = Len(rcvd) - 2 * Pairs(rcvd) - Dropped(rcvd)
        /\ ~Contains(result, <<BS>>)

\* C17: a text with a backspace that has nothing to erase and a pair.
C17_Witness ==
    /\ pc = "returned" /\ last = "clean_text"
    /\ rcvd = <<BS, "a", "b", BS>> /\ result = <<"a">>

\* C18: a round of execute_command's loop that receives a chunk sends a
\* space if the chunk has "--More--", then a q if it has "(END)", and
\* nothing else; what it adds to the accumulation has neither marker; and
\* the call completes in that round exactly if the accumulation, with
\* that addition, has the prompt.
C18_Step ==
    (pc = "ec_loop" /\ rcvd' # rcvd) =>
        LET chunk == SubSeq(rcvd', Len(rcvd) + 1, Len(rcvd'))
            added == SubSeq(result', Len(result) + 1, Len(result'))
        IN  /\ sent' = sent
                  \o (IF Contains(chunk, MoreMarker)
                      THEN << <<" ">> >> ELSE <<>>)
                  \o (IF Contains(chunk, EndMarker)
                      THEN << <<"q">> >> ELSE <<>>)
            /\ SubSeq(result', 1, Len(result)) = result
            /\ ~Contains(added, MoreMarker) /\ ~Contains(added, EndMarker)
            /\ (pc' = "ecff" /\ exc' # "TimeoutError")
                  <=> Contains(result', PromptPat)

C18_MarkersHandledBeforePrompt == [][C18_Step]_vars

\* C18: a command has received both markers, with the prompt, and has
\* completed: both keystrokes were sent, the space first, and no marker
\* is in the accumulation.
C18_Witness ==
    /\ pc = "ecff" /\ last = "execute_command" /\ exc = "none"
    /\ Contains(rcvd, MoreMarker) /\ Contains(rcvd, EndMarker)
    /\ sent = << <<"i", "d", "\n">>, <<" ">>, <<"q">> >>
    /\ ~Contains(result, MoreMarker) /\ ~Contains(result, EndMarker)
    /\ Contains(result, PromptPat)

\* C19: confirm_close() on a session with an open channel on an active
\* transport issues channel.close() and then client.close(), and raises
\* nothing; when the channel is found still open after its close(), that
\* is logged as a warning, client.close() has still been issued in the
\* call, and the transport is closed if its own close() takes effect.
C19_Step ==
    (pc = "api" /\ closeCalls' = closeCalls + 1
        /\ channel = "open" /\ client = "active")
    => /\ closeLog' = closeLog \o <<"channel", "client">>
       /\ exc' = "none" /\ pc' = "api"
       /\ channel' # "closed" =>
            /\ "channel" \in warnings'
            /\ connCloses' = connCloses + 1
            /\ "client" \notin closeFails => client' = "closed"
       /\ channel' = "closed" => "channel" \notin warnings'

C19_ChannelThenTransport == [][C19_Step]_vars

\* C19: the channel's close() did not take effect; the call logged the
\* warning and closed the transport.
C19_Witness ==
    /\ pc = "api" /\ last = "confirm_close" /\ exc = "none"
    /\ closeCalls = 1 /\ closeLog = <<"channel", "client">>
    /\ channel = "open" /\ warnings = {"channel"}
    /\ client = "closed"

\* A polling loop of wait_for_prompt or execute_command is running.
Polling == pc \in {"wp", "ec_loop"}

\* C15: a polling loop is left only with the prompt matched or, the
\* timeout having passed, with TimeoutError.
C15_Step ==
    (Polling /\ ~Polling') =>
        \/ exc' = "TimeoutError" /\ expired
        \/ pc = "wp" /\ exc' = "none" /\ Contains(rcvd', PromptPat)
        \/ pc = "ec_loop" /\ exc' \in {"none", "OSError"}
              /\ Contains(result', PromptPat)

C22_Step ==
    /\ (pc = "api" /\ calls' = calls + 1 /\ channel # "open") =>
          /\ pc' # "wp"
          /\ (pc' = "api" /\ last' = "wait_for_prompt") =>
                exc' = "ValueError"
    /\ (pc = "ec_send" /\ channel # "open") =>
          /\ pc' = "api" /\ last' = "execute_command"
          /\ exc' = "ValueError"
          /\ sent' = sent /\ sentCmds' = sentCmds

C22_ShellReadyRequired == [][C22_Step]_vars

\* C21: however the bytes received so far were split into chunks, the
\* accumulation of execute_command is what normalizing them as one chunk
\* gives, the keystrokes sent are those that one chunk triggers, and the
\* text returned is the one computed from that accumulation.
C21_ChunkingIndependent ==
    (pc = "ec_loop" \/ (pc = "api" /\ last = "execute_command")) =>
        /\ result = clean(ChunkText(rcvd))
        /\ sent = << cmd \o <<"\n">> >> \o ChunkKeys(rcvd)
        /\ (pc = "api" /\ exc = "none") =>
              output = CleanedOutput(clean(ChunkText(rcvd)), cmd)

====
